---- MODULE Spec2Model ----
(***************************************************************************)
(* Model of laurel's structure module (src/src/structure.rs) and of the    *)
(* loading steps of main (src/src/main.rs).                                *)
(*                                                                         *)
(* Text is a sequence of one-character strings.  An f32 is modelled as an  *)
(* exact fraction [num, den] in lowest terms with den >= 0; den = 0 holds  *)
(* the non-finite values (0/0 is NaN, 1/0 and -1/0 the infinities), so a   *)
(* division by zero is a value the model can hold.  Rounding is not        *)
(* modelled.  A panic is an outcome of kind "Panic" with its message.      *)
(***************************************************************************)
EXTENDS Integers, Sequences, FiniteSets, TLC

VARIABLES gro, pc, outcome, structure, ret, n_center_calls

vars == <<gro, pc, outcome, structure, ret, n_center_calls>>

\* Largest number of atom record lines in an input text.
MaxRecords == 2

\* Largest number of center_structure() calls in a run.
MaxCenterCalls == 2

-----------------------------------------------------------------------------
(* Characters and text *)

Digits == <<"0", "1", "2", "3", "4", "5", "6", "7", "8", "9">>

IsDigit(c) == \E i \in 1..10 : Digits[i] = c

DigitVal(c) == (CHOOSE i \in 1..10 : Digits[i] = c) - 1

IsWhitespace(c) == c \in {" ", "\t"}

\* The k-th smallest element of a set of numbers.
Nth(S, k) == CHOOSE e \in S : Cardinality({j \in S : j < e}) = k - 1

\* str::lines(): the pieces of the text that end at a line feed, and the
\* rest after the last line feed when it is not empty, without the feeds.
Lines(text) ==
    LET feeds == {i \in 1..Len(text) : text[i] = "\n"}
        ends == feeds \cup (IF text # <<>> /\ text[Len(text)] # "\n"
                            THEN {Len(text) + 1} ELSE {})
        start(e) == IF \E j \in feeds : j < e
                    THEN (CHOOSE j \in feeds :
                            j < e /\ \A m \in feeds : m < e => m <= j) + 1
                    ELSE 1
    IN  [k \in 1..Cardinality(ends) |->
            LET e == Nth(ends, k) IN SubSeq(text, start(e), e - 1)]

RECURSIVE TrimStart(_)
TrimStart(s) ==
    IF s # <<>> /\ IsWhitespace(s[1]) THEN TrimStart(Tail(s)) ELSE s

RECURSIVE TrimEnd(_)
TrimEnd(s) ==
    IF s # <<>> /\ IsWhitespace(s[Len(s)])
    THEN TrimEnd(SubSeq(s, 1, Len(s) - 1))
    ELSE s

\* str::trim()
Trim(s) == TrimEnd(TrimStart(s))

\* &line[a..b] with 0-based, end-exclusive byte offsets (the caller checks
\* that b is within the line; beyond it the slice panics).
Slice(line, a, b) == SubSeq(line, a + 1, b)

\* str::split_ascii_whitespace(): the maximal runs of characters that are
\* not whitespace.
SplitAsciiWhitespace(s) ==
    LET starts == {i \in 1..Len(s) :
                     ~IsWhitespace(s[i]) /\ (i = 1 \/ IsWhitespace(s[i - 1]))}
        stop(b) == CHOOSE e \in b..Len(s) :
                     /\ \A j \in b..e : ~IsWhitespace(s[j])
                     /\ (e = Len(s) \/ IsWhitespace(s[e + 1]))
    IN  [k \in 1..Cardinality(starts) |->
            LET b == Nth(starts, k) IN SubSeq(s, b, stop(b))]

-----------------------------------------------------------------------------
(* Numbers *)

Abs(n) == IF n < 0 THEN -n ELSE n

Sign(n) == IF n < 0 THEN -1 ELSE IF n > 0 THEN 1 ELSE 0

RECURSIVE GCD(_, _)
GCD(a, b) == IF b = 0 THEN a ELSE GCD(b, a % b)

RECURSIVE Pow10(_)
Pow10(k) == IF k = 0 THEN 1 ELSE 10 * Pow10(k - 1)

\* The f32 n/d.
Frac(n, d) ==
    IF d = 0 THEN [num |-> Sign(n), den |-> 0]
    ELSE LET g == GCD(Abs(n), Abs(d))
         IN  [num |-> (Sign(d) * n) \div g, den |-> Abs(d) \div g]

F32Zero == Frac(0, 1)

NaN == Frac(0, 0)

IsNaN(a) == a.den = 0 /\ a.num = 0

FNeg(a) == [num |-> -a.num, den |-> a.den]

\* f32 + f32
FAdd(a, b) ==
    IF a.den = 0 /\ b.den = 0
    THEN (IF a.num = b.num THEN a ELSE NaN)
    ELSE IF a.den = 0 THEN a
    ELSE IF b.den = 0 THEN b
    ELSE Frac(a.num * b.den + b.num * a.den, a.den * b.den)

\* f32 - f32
FSub(a, b) == FAdd(a, FNeg(b))

\* f32 / (n as f32), n a usize
FDivN(a, n) ==
    IF IsNaN(a) THEN NaN
    ELSE IF a.den = 0 THEN a
    ELSE Frac(a.num, a.den * n)

\* f32 < f32
FLt(a, b) ==
    IF IsNaN(a) \/ IsNaN(b) THEN FALSE
    ELSE IF a.den = 0 /\ b.den = 0 THEN a.num < b.num
    ELSE IF a.den = 0 THEN a.num < 0
    ELSE IF b.den = 0 THEN b.num > 0
    ELSE a.num * b.den < b.num * a.den

\* f32 > f32
FGt(a, b) == FLt(b, a)

\* f32 <= f32
FLe(a, b) == ~IsNaN(a) /\ ~IsNaN(b) /\ ~FLt(b, a)

AllDigits(s) == \A i \in 1..Len(s) : IsDigit(s[i])

RECURSIVE DigitsVal(_, _, _)
DigitsVal(s, i, acc) ==
    IF i > Len(s) THEN acc ELSE DigitsVal(s, i + 1, 10 * acc + DigitVal(s[i]))

None == [some |-> FALSE]

Some(v) == [some |-> TRUE, val |-> v]

\* str::parse::<u32>() and str::parse::<usize>(): an optional "+", then one
\* or more digits.  (The texts of the model are too short to overflow.)
ParseUnsigned(s) ==
    LET body == IF s # <<>> /\ s[1] = "+" THEN Tail(s) ELSE s
    IN  IF body # <<>> /\ AllDigits(body)
        THEN Some(DigitsVal(body, 1, 0))
        ELSE None

\* str::parse::<f32>() on decimal text: an optional sign, digits with an
\* optional point, at least one digit.  (Exponents and the literals inf
\* and nan need letters that the texts of the model do not hold.)
ParseF32(s) ==
    LET signed == s # <<>> /\ s[1] \in {"+", "-"}
        body == IF signed THEN Tail(s) ELSE s
        dots == {i \in 1..Len(body) : body[i] = "."}
        dot == IF dots = {} THEN Len(body) + 1 ELSE CHOOSE i \in dots : TRUE
        int == SubSeq(body, 1, dot - 1)
        frac == SubSeq(body, dot + 1, Len(body))
        sgn == IF signed /\ s[1] = "-" THEN -1 ELSE 1
    IN  IF Cardinality(dots) <= 1 /\ AllDigits(int) /\ AllDigits(frac)
           /\ Len(int) + Len(frac) >= 1
        THEN Some(Frac(sgn * DigitsVal(int \o frac, 1, 0), Pow10(Len(frac))))
        ELSE None

-----------------------------------------------------------------------------
(* Vec3 *)

Vec3(x, y, z) == [x |-> x, y |-> y, z |-> z]

Vec3Zero == Vec3(F32Zero, F32Zero, F32Zero)

VAdd(a, b) == Vec3(FAdd(a.x, b.x), FAdd(a.y, b.y), FAdd(a.z, b.z))

VSub(a, b) == Vec3(FSub(a.x, b.x), FSub(a.y, b.y), FSub(a.z, b.z))

VDivN(a, n) == Vec3(FDivN(a.x, n), FDivN(a.y, n), FDivN(a.z, n))

-----------------------------------------------------------------------------
(* Outcomes *)

Ok(v) == [kind |-> "Ok", value |-> v]

Panic(msg) == [kind |-> "Panic", msg |-> msg]

IsOk(r) == r.kind = "Ok"

-----------------------------------------------------------------------------
(* Atom and Structure (structure.rs, lines 4-31) *)

Atom(resnum, resname, atomname, atomnum, position) ==
    [resnum |-> resnum, resname |-> resname, atomname |-> atomname,
     atomnum |-> atomnum, position |-> position]

Structure(title, atoms, box_vecs) ==
    [title |-> title, atoms |-> atoms, box_vecs |-> box_vecs]

\* Structure::n_atoms
n_atoms(self) == Len(self.atoms)

RECURSIVE FoldPositions(_, _, _)
FoldPositions(atoms, i, acc) ==
    IF i > Len(atoms) THEN acc
    ELSE FoldPositions(atoms, i + 1, VAdd(acc, atoms[i].position))

\* Structure::center
center(self) == VDivN(FoldPositions(self.atoms, 1, Vec3Zero), n_atoms(self))

\* A centering that moves the atoms the wrong way.
center_structure_added(self) ==
    LET c == center(self)
    IN  [self EXCEPT !.atoms =
            [i \in 1..Len(self.atoms) |->
                [self.atoms[i] EXCEPT !.position = VAdd(@, c)]]]

\* A centering that takes the center anew for each atom, from the atoms
\* up to it.
center_structure_recomputed(self) ==
    [self EXCEPT !.atoms =
        [i \in 1..Len(self.atoms) |->
            [self.atoms[i] EXCEPT !.position =
                VSub(@, center([self EXCEPT !.atoms = SubSeq(@, 1, i)]))]]]

\* Structure::center_structure
center_structure(self) ==
    LET c == center(self)
    IN  [self EXCEPT !.atoms =
            [i \in 1..Len(self.atoms) |->
                [self.atoms[i] EXCEPT !.position = VSub(@, c)]]]

RECURSIVE MinZLoop(_, _, _)
MinZLoop(atoms, i, m) ==
    IF i > Len(atoms) THEN m
    ELSE MinZLoop(atoms, i + 1,
                  IF FLt(atoms[i].position.z, m) THEN atoms[i].position.z ELSE m)

\* A min_z that never looks past the first atom.
min_z_first(self) ==
    IF self.atoms = <<>> THEN F32Zero ELSE self.atoms[1].position.z

\* Structure::min_z
min_z(self) ==
    IF self.atoms = <<>> THEN F32Zero
    ELSE MinZLoop(self.atoms, 2, self.atoms[1].position.z)

RECURSIVE MaxZLoop(_, _, _)
MaxZLoop(atoms, i, m) ==
    IF i > Len(atoms) THEN m
    ELSE MaxZLoop(atoms, i + 1,
                  IF FGt(atoms[i].position.z, m) THEN atoms[i].position.z ELSE m)

\* Structure::max_z
max_z(self) ==
    IF self.atoms = <<>> THEN F32Zero
    ELSE MaxZLoop(self.atoms, 2, self.atoms[1].position.z)

-----------------------------------------------------------------------------
(* Structure::from_gro (structure.rs, lines 90-146) *)

\* Indexing a line past its end.
SliceOutOfBounds == Panic("byte index out of bounds")

\* ArrayString::<U5>::try_from(&str)
TryIntoArrayString5(s) == IF Len(s) <= 5 THEN Some(s) ELSE None

\* A position array whose last slice runs to the end of the line.
position_fields_to_end(line) ==
    <<Slice(line, 20, 28), Slice(line, 28, 36), Slice(line, 36, Len(line))>>

\* [&line[20..28], &line[28..36], &line[36..44]]
position_fields(line) ==
    <<Slice(line, 20, 28), Slice(line, 28, 36), Slice(line, 36, 44)>>

\* The Atom literal of the loop body; its fields are evaluated in order,
\* and the three position slices are taken before any of them is parsed.
parse_atom(line) ==
    IF Len(line) < 5 THEN SliceOutOfBounds ELSE
    LET resnum == ParseUnsigned(Trim(Slice(line, 0, 5))) IN
    IF ~resnum.some THEN Panic("bad resnum integer") ELSE
    IF Len(line) < 10 THEN SliceOutOfBounds ELSE
    LET resname == TryIntoArrayString5(Trim(Slice(line, 5, 10))) IN
    IF ~resname.some THEN Panic("called unwrap on an Err value") ELSE
    IF Len(line) < 15 THEN SliceOutOfBounds ELSE
    LET atomname == TryIntoArrayString5(Trim(Slice(line, 10, 15))) IN
    IF ~atomname.some THEN Panic("called unwrap on an Err value") ELSE
    IF Len(line) < 20 THEN SliceOutOfBounds ELSE
    LET atomnum == ParseUnsigned(Trim(Slice(line, 15, 20))) IN
    IF ~atomnum.some THEN Panic("bad atomnum integer") ELSE
    IF Len(line) < 44 THEN SliceOutOfBounds ELSE
    LET fields == position_fields(line)
        x == ParseF32(Trim(fields[1]))
        y == ParseF32(Trim(fields[2]))
        z == ParseF32(Trim(fields[3]))
    IN
    IF ~x.some \/ ~y.some \/ ~z.some THEN Panic("bad position float") ELSE
    Ok(Atom(resnum.val, resname.val, atomname.val, atomnum.val,
            Vec3(x.val, y.val, z.val)))

\* The loop with each atom put in front of the earlier ones.
RECURSIVE read_atoms_reversed(_, _, _, _)
read_atoms_reversed(lines, n, i, atoms) ==
    IF i >= n THEN Ok(atoms)
    ELSE IF Len(lines) < 3 + i
         THEN Panic("end of file before all atoms have been specified")
         ELSE LET atom == parse_atom(lines[3 + i])
              IN  IF IsOk(atom)
                  THEN read_atoms_reversed(lines, n, i + 1,
                                           <<atom.value>> \o atoms)
                  ELSE atom

\* The loop "for _ in 0..n_atoms": the atoms of lines[3 .. n_atoms + 2],
\* or the first panic.
RECURSIVE read_atoms(_, _, _, _)
read_atoms(lines, n, i, atoms) ==
    IF i >= n THEN Ok(atoms)
    ELSE IF Len(lines) < 3 + i
         THEN Panic("end of file before all atoms have been specified")
         ELSE LET atom == parse_atom(lines[3 + i])
              IN  IF IsOk(atom)
                  THEN read_atoms(lines, n, i + 1, Append(atoms, atom.value))
                  ELSE atom

\* A box line reader that applies each trailing term that parses.
parse_box_partial(line) ==
    LET toks == SplitAsciiWhitespace(line)
        box_line == [i \in 1..Len(toks) |-> ParseF32(toks[i])]
    IN  IF Len(box_line) < 3 THEN Panic("bad box vectors")
        ELSE IF \E i \in 1..3 : ~box_line[i].some
        THEN Panic("bad first box vector triplet")
        ELSE Ok([i \in 1..9 |->
                   IF i <= Len(box_line) /\ box_line[i].some
                   THEN box_line[i].val
                   ELSE F32Zero])

\* The box line: three mandatory diagonal terms, then six optional
\* off-diagonal terms taken all together or not at all.
parse_box(line) ==
    LET toks == SplitAsciiWhitespace(line)
        box_line == [i \in 1..Len(toks) |-> ParseF32(toks[i])]
        rest == SubSeq(box_line, 4, Len(box_line))
    IN  IF Len(box_line) < 3 THEN Panic("bad box vectors")
        ELSE IF \E i \in 1..3 : ~box_line[i].some
        THEN Panic("bad first box vector triplet")
        ELSE Ok([i \in 1..9 |->
                   IF i <= 3 THEN box_line[i].val
                   ELSE IF Len(rest) = 6 /\ \A j \in 1..6 : rest[j].some
                        THEN rest[i - 3].val
                        ELSE F32Zero])

from_gro(text) ==
    LET lines == Lines(text) IN
    IF Len(lines) < 1 THEN Panic("too short file") ELSE
    LET title == Trim(lines[1]) IN
    IF Len(lines) < 2 THEN Panic("too short file") ELSE
    LET n == ParseUnsigned(Trim(lines[2])) IN
    IF ~n.some
    THEN Panic("invalid n_atoms integer at line 2 of the gro file") ELSE
    LET atoms == read_atoms(lines, n.val, 0, <<>>) IN
    IF ~IsOk(atoms) THEN atoms ELSE
    IF Len(lines) < 3 + n.val THEN Panic("too short file") ELSE
    LET box_vecs == parse_box(lines[3 + n.val]) IN
    IF ~IsOk(box_vecs) THEN box_vecs ELSE
    Ok(Structure(title, atoms.value, box_vecs.value))

-----------------------------------------------------------------------------
(* Input texts *)

Sp(n) == [i \in 1..n |-> " "]

\* A field right- or left-justified in w columns.
RJ(s, w) == Sp(w - Len(s)) \o s

LJ(s, w) == s \o Sp(w - Len(s))

RECURSIVE JoinWith(_, _)
JoinWith(parts, sep) ==
    IF parts = <<>> THEN <<>>
    ELSE IF Len(parts) = 1 THEN parts[1]
    ELSE parts[1] \o sep \o JoinWith(Tail(parts), sep)

\* A text made of the given lines, each ended by a line feed.
RECURSIVE Text(_)
Text(lines) ==
    IF lines = <<>> THEN <<>> ELSE lines[1] \o <<"\n">> \o Text(Tail(lines))

\* An atom record in the columns of the .gro format.
Record(resnum, resname, atomname, atomnum, x, y, z) ==
    RJ(resnum, 5) \o LJ(resname, 5) \o RJ(atomname, 5) \o RJ(atomnum, 5)
        \o RJ(x, 8) \o RJ(y, 8) \o RJ(z, 8)

WAT == <<"W", "A", "T">>

OW == <<"O", "W">>

HW1 == <<"H", "W", "1">>

abc == <<"a", "b", "c">>

RecOW ==
    Record(<<"1">>, WAT, OW, <<"1">>, <<"1", ".", "0", "0", "0">>,
           <<"2", ".", "0", "0", "0">>, <<"3", ".", "0", "0", "0">>)

RecHW ==
    Record(<<"1">>, WAT, HW1, <<"2">>, <<"1", ".", "5", "0", "0">>,
           <<"-", "0", ".", "2", "5", "0">>, <<"-", "1", ".", "5", "0", "0">>)

\* A record followed by a velocity column.
RecVel ==
    Record(<<"2">>, WAT, OW, <<"4">>, <<"0", ".", "0", "0", "0">>,
           <<"2", ".", "0", "0", "0">>, <<"4", ".", "0", "0", "0">>)
        \o RJ(<<"0", ".", "1", "0", "0", "0">>, 8)

\* A record without names; read as a box line it has five tokens, the
\* first three of them floats.
RecBare ==
    Record(<<"3">>, <<>>, <<>>, <<"5">>, <<"1", ".", "0", "0", "0">>,
           <<"0", ".", "0", "0", "0">>, <<"2", ".", "5", "0", "0">>)

RecBadResnum ==
    Record(abc, WAT, OW, <<"1">>, <<"1", ".", "0", "0", "0">>,
           <<"2", ".", "0", "0", "0">>, <<"3", ".", "0", "0", "0">>)

RecBadAtomnum ==
    Record(<<"1">>, WAT, OW, <<"-", "1">>, <<"1", ".", "0", "0", "0">>,
           <<"2", ".", "0", "0", "0">>, <<"3", ".", "0", "0", "0">>)

RecBadY ==
    Record(<<"1">>, WAT, OW, <<"1">>, <<"1", ".", "0", "0", "0">>,
           <<"2", ".", "0", ".", "0">>, <<"3", ".", "0", "0", "0">>)

\* A record cut off inside its y column.
RecShort == SubSeq(RecBadY, 1, 30)

ValidRecords == {RecOW, RecHW, RecVel, RecBare}

InvalidRecords == {RecBadResnum, RecBadAtomnum, RecBadY, RecShort}

RecordLines == ValidRecords \cup InvalidRecords

T30 == <<"3", ".", "0">>

T05 == <<"0", ".", "5">>

T15 == <<"1", ".", "5">>

Box3 == JoinWith(<<T30, <<"4">>, <<"5", ".">>>>, <<" ">>)

Box9 == Sp(3) \o JoinWith(<<T30, T30, T30, T05, T15, <<"0">>, <<"-", "1">>,
                            <<".", "5">>, T15>>, Sp(3))

Box9Bad == JoinWith(<<T30, T30, T30, T05, T15, abc, <<"-", "1">>,
                      <<".", "5">>, T15>>, <<" ">>)

Box5 == JoinWith(<<T30, T30, T30, T05, T15>>, <<" ">>)

Box10 == JoinWith(<<T30, T30, T30, T05, T15, T05, T15, T05, T15, T05>>,
                  <<" ">>)

Box2 == JoinWith(<<T30, T30>>, <<" ">>)

Box3Bad == JoinWith(<<T30, abc, T30>>, <<" ">>)

BoxLines == {Box3, Box9, Box9Bad, Box5, Box10, Box2, Box3Bad}

\* What follows the atom records: nothing, a box line, or a box line and
\* one more line.
Tails == {<<>>} \cup {<<b>> : b \in BoxLines} \cup {<<b, abc>> : b \in BoxLines}

TitleLine == <<" ", "W", "a", "t", "e", "r", " ">>

CountLines ==
    {RJ(<<Digits[k + 1]>>, 5) : k \in 0..MaxRecords}
        \cup {abc, <<"-", "1">>}

RECURSIVE SeqsUpTo(_, _)
SeqsUpTo(S, n) ==
    IF n = 0 THEN {<<>>}
    ELSE LET shorter == SeqsUpTo(S, n - 1)
         IN  shorter \cup {Append(q, x) : q \in shorter, x \in S}

\* The texts a run may load: a title, a count, up to MaxRecords record
\* lines and a tail; and the texts that end before the count line or
\* without a final line feed.
Inputs ==
    {Text(<<TitleLine, c>> \o recs \o tail) :
        c \in CountLines, recs \in SeqsUpTo(RecordLines, MaxRecords),
        tail \in Tails}
    \cup {<<>>, TitleLine, Text(<<TitleLine>>),
          Text(<<TitleLine, RJ(<<"1">>, 5), RecOW>>) \o Box3}

-----------------------------------------------------------------------------
(* The run: main loads the text, then the structure's methods are called *)

NoStructure == Structure(<<>>, <<>>, <<>>)

Init ==
    /\ gro \in Inputs
    /\ pc = "start"
    /\ outcome = [kind |-> "None"]
    /\ structure = NoStructure
    /\ ret = [op |-> "none"]
    /\ n_center_calls = 0

\* main, lines 16-25: from_gro on the text read from the file; a panic
\* ends the program.
Load ==
    /\ pc = "start"
    /\ outcome' = from_gro(gro)
    /\ IF IsOk(outcome')
       THEN pc' = "loaded" /\ structure' = outcome'.value
       ELSE pc' = "panicked" /\ structure' = structure
    /\ UNCHANGED <<gro, ret, n_center_calls>>

NAtoms ==
    /\ pc = "loaded"
    /\ ret' = [op |-> "n_atoms", val |-> n_atoms(structure)]
    /\ UNCHANGED <<gro, pc, outcome, structure, n_center_calls>>

Center ==
    /\ pc = "loaded"
    /\ ret' = [op |-> "center", val |-> center(structure)]
    /\ UNCHANGED <<gro, pc, outcome, structure, n_center_calls>>

CenterStructure ==
    /\ pc = "loaded"
    /\ n_center_calls < MaxCenterCalls
    /\ structure' = center_structure(structure)
    /\ n_center_calls' = n_center_calls + 1
    /\ ret' = [op |-> "center_structure"]
    /\ UNCHANGED <<gro, pc, outcome>>

MinZ ==
    /\ pc = "loaded"
    /\ ret' = [op |-> "min_z", val |-> min_z(structure)]
    /\ UNCHANGED <<gro, pc, outcome, structure, n_center_calls>>

MaxZ ==
    /\ pc = "loaded"
    /\ ret' = [op |-> "max_z", val |-> max_z(structure)]
    /\ UNCHANGED <<gro, pc, outcome, structure, n_center_calls>>

Next == Load \/ NAtoms \/ Center \/ CenterStructure \/ MinZ \/ MaxZ

Spec == Init /\ [][Next]_vars

-----------------------------------------------------------------------------
(* Properties *)

Loaded == pc = "loaded"

Returned == pc # "start"

Decoded == outcome.value

\* The declared atom count of a text with a parseable second line.
DeclaredCount(text) == ParseUnsigned(Trim(Lines(text)[2])).val

HasCount(text) ==
    Len(Lines(text)) >= 2 /\ ParseUnsigned(Trim(Lines(text)[2])).some

\* C1: when from_gro succeeds on a text that declares n atoms, the
\* Structure has n atoms, atom i holds the trimmed (and, for numbers, parsed)
\* contents of the columns of line i + 3 in file order, and the title is
\* the trimmed first line.
C1_DecodedInFileOrder ==
    Loaded =>
        LET lines == Lines(gro)
            n == DeclaredCount(gro)
        IN  /\ Len(Decoded.atoms) = n
            /\ Decoded.title = Trim(lines[1])
            /\ \A i \in 1..n :
                 LET line == lines[i + 2]
                     F(a, b) == Trim(Slice(line, a, b))
                 IN  Decoded.atoms[i] =
                        Atom(ParseUnsigned(F(0, 5)).val, F(5, 10), F(10, 15),
                             ParseUnsigned(F(15, 20)).val,
                             Vec3(ParseF32(F(20, 28)).val,
                                  ParseF32(F(28, 36)).val,
                                  ParseF32(F(36, 44)).val))

C1_Witness ==
    /\ Loaded
    /\ Len(Decoded.atoms) >= 2
    /\ Decoded.atoms[1] # Decoded.atoms[2]
    /\ Decoded.title # Lines(gro)[1]

\* The failure kind that a panic message stands for, reading each panic as
\* the failure of the taxonomy it comes closest to.
FailureKind(r) ==
    IF r.kind # "Panic" THEN "None"
    ELSE IF r.msg \in {"too short file",
                       "end of file before all atoms have been specified"}
    THEN "TruncatedInput"
    ELSE IF r.msg = "invalid n_atoms integer at line 2 of the gro file"
    THEN "InvalidAtomCount"
    ELSE IF r.msg \in {"bad resnum integer", "bad atomnum integer",
                       "bad position float"}
    THEN "MalformedAtomRecord"
    ELSE IF r.msg \in {"bad box vectors", "bad first box vector triplet"}
    THEN "MalformedBoxVectors"
    ELSE "Abort"

\* A box line with its three mandatory terms.
IsBoxLine(line) ==
    LET toks == SplitAsciiWhitespace(line)
    IN  Len(toks) >= 3 /\ \A i \in 1..3 : ParseF32(toks[i]).some

\* The first numeric field of a record line that is cut off or does not
\* parse, in reading order; "none" for a line whose fields all parse.
FirstBadField(line) ==
    LET Bad(a, b, int) ==
            \/ Len(line) < b
            \/ IF int THEN ~ParseUnsigned(Trim(Slice(line, a, b))).some
                      ELSE ~ParseF32(Trim(Slice(line, a, b))).some
    IN  IF Bad(0, 5, TRUE) THEN "resnum"
        ELSE IF Bad(15, 20, TRUE) THEN "atomnum"
        ELSE IF Bad(20, 28, FALSE) THEN "x"
        ELSE IF Bad(28, 36, FALSE) THEN "y"
        ELSE IF Bad(36, 44, FALSE) THEN "z"
        ELSE "none"

\* The text is a title, a count n, fewer than n well-formed atom records
\* and a box line, and ends there.
TruncatedBeforeBox(text) ==
    LET lines == Lines(text) IN
    /\ Len(lines) >= 3
    /\ HasCount(text)
    /\ Len(lines) - 3 < DeclaredCount(text)
    /\ \A i \in 3..(Len(lines) - 1) : FirstBadField(lines[i]) = "none"
    /\ IsBoxLine(lines[Len(lines)])

\* C2: decoding a text that declares more atom records than it supplies
\* before its box line fails as TruncatedInput, and as nothing else.
C2_TruncatedInput ==
    (Returned /\ TruncatedBeforeBox(gro)) =>
        FailureKind(outcome) = "TruncatedInput"

\* The first violation of the format in reading order, "None" for a
\* well-formed text.
RECURSIVE FirstRecordViolation(_, _, _)
FirstRecordViolation(lines, n, i) ==
    IF i >= n THEN "None"
    ELSE IF Len(lines) < 3 + i THEN "TruncatedInput"
    ELSE IF FirstBadField(lines[3 + i]) # "none" THEN "MalformedAtomRecord"
    ELSE FirstRecordViolation(lines, n, i + 1)

FirstViolation(text) ==
    LET lines == Lines(text) IN
    IF Len(lines) < 2 THEN "TruncatedInput"
    ELSE IF ~HasCount(text) THEN "InvalidAtomCount"
    ELSE LET n == DeclaredCount(text)
             rec == FirstRecordViolation(lines, n, 0)
         IN  IF rec # "None" THEN rec
             ELSE IF Len(lines) < 3 + n THEN "TruncatedInput"
             ELSE IF ~IsBoxLine(lines[3 + n]) THEN "MalformedBoxVectors"
             ELSE "None"

\* C3: on a text that violates the format, from_gro returns to its caller
\* one typed failure whose kind is the first violation in reading order,
\* and no Structure.
C3_TypedFailureReturned ==
    (Returned /\ FirstViolation(gro) # "None") =>
        /\ outcome.kind = "Err"
        /\ outcome.error = FirstViolation(gro)

\* The box_vecs that the box line stands for: the three diagonal terms,
\* then the six further terms when there are exactly six and all parse,
\* and zeros otherwise.
ExpectedBox(line) ==
    LET toks == SplitAsciiWhitespace(line)
        all_six == Len(toks) = 9 /\ \A i \in 4..9 : ParseF32(toks[i]).some
    IN  [i \in 1..9 |->
            IF i <= 3 \/ all_six THEN ParseF32(toks[i]).val ELSE F32Zero]

\* The title, the count and the atom records of the text decode, and a
\* box line with its three mandatory terms follows them.
ReachesGoodBoxLine(text) ==
    /\ HasCount(text)
    /\ LET lines == Lines(text)
           n == DeclaredCount(text)
       IN  /\ Len(lines) >= n + 3
           /\ \A i \in 3..(n + 2) : FirstBadField(lines[i]) = "none"
           /\ IsBoxLine(lines[n + 3])

\* C4: a box line whose first three tokens parse decodes; box_vecs[0..3]
\* are those three values, and the six off-diagonal entries are the six
\* further tokens when there are exactly six and all parse, and all 0.0
\* otherwise.
C4_BoxAllOrNothing ==
    (Returned /\ ReachesGoodBoxLine(gro)) =>
        /\ IsOk(outcome)
        /\ Decoded.box_vecs =
              ExpectedBox(Lines(gro)[DeclaredCount(gro) + 3])

C4_Witness ==
    /\ Loaded
    /\ LET toks == SplitAsciiWhitespace(Lines(gro)[DeclaredCount(gro) + 3])
       IN  /\ Len(toks) = 9
           /\ \E i \in 4..9 : ~ParseF32(toks[i]).some
           /\ \E i \in 4..9 : ParseF32(toks[i]).some
                                /\ ParseF32(toks[i]).val # F32Zero
    /\ \A i \in 4..9 : Decoded.box_vecs[i] = F32Zero

\* The component-wise sum of the positions of the atoms.
RECURSIVE SumOf(_, _)
SumOf(atoms, k) ==
    IF k = 0 THEN Vec3Zero
    ELSE LET rest == SumOf(atoms, k - 1)
             p == atoms[k].position
         IN  Vec3(FAdd(rest.x, p.x), FAdd(rest.y, p.y), FAdd(rest.z, p.z))

\* C5: center() of a Structure without atoms returns the zero vector, and
\* of one with N >= 1 atoms the sum of the positions divided by N.
C5_CenterOrZero ==
    (Loaded /\ ret.op = "center") =>
        LET N == Len(structure.atoms)
            sum == SumOf(structure.atoms, N)
        IN  IF N = 0 THEN ret.val = Vec3Zero
            ELSE ret.val = Vec3(Frac(sum.x.num, sum.x.den * N),
                                Frac(sum.y.num, sum.y.den * N),
                                Frac(sum.z.num, sum.z.den * N))

\* C6: with at least one atom, min_z() and max_z() are each the z of some
\* atom and min_z() <= z <= max_z() for the z of every atom; without atoms
\* both are 0.0.
C6_MinMaxZ ==
    Loaded =>
        LET zs == {structure.atoms[i].position.z :
                     i \in 1..Len(structure.atoms)}
            lo == min_z(structure)
            hi == max_z(structure)
        IN  /\ (ret.op = "min_z" => ret.val = lo)
            /\ (ret.op = "max_z" => ret.val = hi)
            /\ IF zs = {} THEN lo = F32Zero /\ hi = F32Zero
               ELSE /\ lo \in zs
                    /\ hi \in zs
                    /\ \A z \in zs : FLe(lo, z) /\ FLe(z, hi)

C6_Witness ==
    /\ Loaded
    /\ ret.op = "min_z"
    /\ Len(structure.atoms) >= 2
    /\ FLt(ret.val, structure.atoms[1].position.z)
    /\ FLt(ret.val, max_z(structure))

\* C7: with N >= 1 atoms, center() after center_structure() is the zero
\* vector (in exact arithmetic).
C7_CenteredAtZero ==
    (Loaded /\ ret.op = "center" /\ n_center_calls >= 1
        /\ Len(structure.atoms) >= 1) =>
        ret.val = Vec3Zero

C7_Witness ==
    /\ Loaded
    /\ ret.op = "center"
    /\ n_center_calls >= 1
    /\ Len(structure.atoms) >= 2
    /\ structure # Decoded
    /\ ret.val = Vec3Zero

\* The first numeric field that does not parse among the records the
\* count asks for, with the index of its record; "none" when all parse or
\* the text ends first.
RECURSIVE FirstBadRecord(_, _, _)
FirstBadRecord(lines, n, i) ==
    IF i >= n \/ Len(lines) < 3 + i THEN [field |-> "none"]
    ELSE IF FirstBadField(lines[3 + i]) # "none"
    THEN [field |-> FirstBadField(lines[3 + i]), record_index |-> i]
    ELSE FirstBadRecord(lines, n, i + 1)

\* C8: a text with an atom record whose numeric field does not parse, a
\* record shorter than 44 columns included, is rejected with a
\* MalformedAtomRecord failure carrying the field and the record index;
\* the decoder neither aborts nor produces a Structure.
C8_MalformedAtomRecord ==
    (Returned /\ HasCount(gro)
        /\ FirstBadRecord(Lines(gro), DeclaredCount(gro), 0).field # "none") =>
        LET bad == FirstBadRecord(Lines(gro), DeclaredCount(gro), 0)
        IN  outcome = [kind |-> "Err", error |-> "MalformedAtomRecord",
                       field |-> bad.field,
                       record_index |-> bad.record_index]

\* Everything of a Structure but the positions of its atoms.
Identity(s) ==
    [title |-> s.title, box_vecs |-> s.box_vecs,
     atoms |-> [i \in 1..Len(s.atoms) |->
                  [resnum |-> s.atoms[i].resnum,
                   resname |-> s.atoms[i].resname,
                   atomname |-> s.atoms[i].atomname,
                   atomnum |-> s.atoms[i].atomnum]]]

\* The differences between the positions of every two atoms.
Differences(s) ==
    [i \in 1..Len(s.atoms), j \in 1..Len(s.atoms) |->
        LET p == s.atoms[i].position
            q == s.atoms[j].position
        IN  Vec3(FSub(p.x, q.x), FSub(p.y, q.y), FSub(p.z, q.z))]

\* C9: no call changes the number or order of the atoms, their residue
\* numbers, names and atom numbers, the title or the box vectors from the
\* decoded values; center_structure keeps the difference between the
\* positions of every two atoms; center, min_z, max_z and n_atoms change
\* nothing.
C9_Frame ==
    [][Loaded =>
         /\ Identity(structure') = Identity(Decoded)
         /\ Differences(structure') = Differences(structure)
         /\ (ret'.op # "center_structure" => structure' = structure)]_vars

C9_Witness ==
    /\ Loaded
    /\ n_center_calls >= 1
    /\ Len(structure.atoms) >= 2
    /\ structure # Decoded
    /\ Identity(structure) = Identity(Decoded)

\* The part of a text that the claim lets from_gro read: its first n + 3
\* lines (two when the count does not parse), the atom records among them
\* cut to their first 44 columns.
Relevant(text) ==
    LET lines == Lines(text)
        n == DeclaredCount(text)
        Min(a, b) == IF a < b THEN a ELSE b
    IN  IF ~HasCount(text) THEN Text(SubSeq(lines, 1, Min(2, Len(lines))))
        ELSE Text([k \in 1..Min(n + 3, Len(lines)) |->
                     IF k >= 3 /\ k <= n + 2
                     THEN SubSeq(lines[k], 1, Min(44, Len(lines[k])))
                     ELSE lines[k]])

\* C10: from_gro gives the same result on a text and on the part of it
\* made of its first n + 3 lines with the atom records cut to 44 columns;
\* so two texts that agree on that part decode alike.
C10_OnlyRelevantPart ==
    Returned => outcome = from_gro(Relevant(gro))

C10_Witness ==
    /\ Loaded
    /\ LET lines == Lines(gro)
           n == DeclaredCount(gro)
       IN  /\ Len(lines) > n + 3
           /\ \E i \in 3..(n + 2) : Len(lines[i]) > 44
    /\ outcome = from_gro(Relevant(gro))

====
